---------------------------- MODULE Spec2Model ----------------------------
(***************************************************************************)
(* Crypto Tax Tracker: the FIFO lot-matching engine (calculateGainsLosses) *)
(* and the request handlers that feed it (POST transactions, POST import,  *)
(* POST tax calculate), modelled from                                      *)
(*   src/Crypto Tax Tracker V1/src/app/api/cryptocurrencies/route.ts       *)
(***************************************************************************)
EXTENDS Integers, Sequences, FiniteSets, TLC

(***************************************************************************)
(* JavaScript numbers.  A number is a pair <<n, d>> standing for n/d in    *)
(* lowest terms with d >= 0; d = 0 gives the three non-finite values       *)
(* NaN = <<0,0>>, +Infinity = <<1,0>>, -Infinity = <<-1,0>>.  Arithmetic   *)
(* is exact on the finite values (no binary rounding) and follows IEEE 754 *)
(* on the non-finite ones.                                                 *)
(***************************************************************************)
RECURSIVE GCD(_, _)
GCD(a, b) == IF b = 0 THEN a ELSE GCD(b, a % b)

AbsInt(n) == IF n < 0 THEN -n ELSE n

SignInt(n) == IF n < 0 THEN -1 ELSE IF n > 0 THEN 1 ELSE 0

Norm(n, d) ==
    IF d = 0 THEN <<SignInt(n), 0>>
    ELSE LET g == GCD(AbsInt(n), AbsInt(d))
             s == SignInt(d)
         IN  <<(s * n) \div g, (s * d) \div g>>

Num(n) == <<n, 1>>

NaN == <<0, 0>>

IsNaN(x) == x = NaN

IsFinite(x) == x[2] # 0

NumAdd(x, y) ==
    IF ~IsFinite(x) /\ ~IsFinite(y)
    THEN (IF x = y THEN x ELSE NaN)
    ELSE Norm(x[1] * y[2] + y[1] * x[2], x[2] * y[2])

NumNeg(x) == <<-x[1], x[2]>>

NumSub(x, y) == NumAdd(x, NumNeg(y))

NumMul(x, y) == Norm(x[1] * y[1], x[2] * y[2])

NumDiv(x, y) ==
    IF ~IsFinite(x) /\ ~IsFinite(y) THEN NaN
    ELSE Norm(x[1] * y[2], x[2] * y[1])

NumAbs(x) == <<AbsInt(x[1]), x[2]>>

NumGt(x, y) ==
    /\ ~IsNaN(x)
    /\ ~IsNaN(y)
    /\ IF IsFinite(x) /\ IsFinite(y) THEN x[1] * y[2] > y[1] * x[2]
       ELSE IF IsFinite(x) THEN y[1] < 0
       ELSE IF IsFinite(y) THEN x[1] > 0
       ELSE x[1] > y[1]

NumMin(x, y) ==
    IF IsNaN(x) \/ IsNaN(y) THEN NaN
    ELSE IF NumGt(x, y) THEN y ELSE x

NumStrictEq(x, y) == ~IsNaN(x) /\ ~IsNaN(y) /\ x = y

Zero == Num(0)

(***************************************************************************)
(* Time.  A timestamp is Date.getTime() counted in ticks of                *)
(* 1/TicksPerSecond second since 1 January of the first modelled year.     *)
(***************************************************************************)
TicksPerSecond == 2

TicksPerDay == 24 * 60 * 60 * TicksPerSecond

TaxYears == {2023, 2024}

EpochYear == CHOOSE y \in TaxYears : \A z \in TaxYears : y <= z

IsLeap(y) == y % 4 = 0 /\ (y % 100 # 0 \/ y % 400 = 0)

DaysInYear(y) == IF IsLeap(y) THEN 366 ELSE 365

RECURSIVE DaysBefore(_)
DaysBefore(y) == IF y <= EpochYear THEN 0 ELSE DaysBefore(y - 1) + DaysInYear(y - 1)

\* new Date(taxYear, 0, 1)
YearStart(y) == DaysBefore(y) * TicksPerDay

\* new Date(taxYear, 11, 31, 23, 59, 59)
YearEnd(y) == YearStart(y + 1) - TicksPerSecond

(***************************************************************************)
(* State.                                                                  *)
(***************************************************************************)
VARIABLES
    dbTransactions,     \* db.transaction: the stored rows, in insertion order
    dbTaxLots,          \* db.taxLot: the stored rows, in insertion order
    dbTaxReports,       \* db.taxReport: the tax years that have a report row
    dbTaxCalculations,  \* db.taxCalculation: one row of nine totals per report
    req,                \* the locals of each tax-calculate request
    firstRun,           \* history: what the first of two calls on one snapshot returned
    periodRuns          \* history: per tax year, the last run since the ledger changed

vars == <<dbTransactions, dbTaxLots, dbTaxReports, dbTaxCalculations, req,
          firstRun, periodRuns>>

Requests == {1}

\* GainLossCalculation, as initialised at the top of calculateGainsLosses
EmptyResult ==
    [shortTermGains |-> Zero, longTermGains |-> Zero,
     shortTermLosses |-> Zero, longTermLosses |-> Zero,
     totalGains |-> Zero, totalLosses |-> Zero, netGainLoss |-> Zero,
     costBasis |-> Zero, proceeds |-> Zero, transactions |-> <<>>]

\* A request that is not running
IdleRequest ==
    [pc |-> "idle", taxYear |-> 0, transactions |-> <<>>,
     previousTaxLots |-> <<>>, heap |-> <<>>, availableLots |-> <<>>,
     idx |-> 0, remainingAmount |-> Zero, totalCostBasis |-> Zero,
     totalProceeds |-> Zero, result |-> EmptyResult,
     matchedLots |-> <<>>, sellStart |-> <<>>, lotsAtEntry |-> <<>>]

NoRun == [done |-> FALSE, open |-> <<>>, closed |-> {}, matched |-> <<>>]

NoFirstRun == [done |-> FALSE, result |-> EmptyResult]

Init ==
    /\ dbTransactions = <<>>
    /\ dbTaxLots = <<>>
    /\ dbTaxReports = {}
    /\ dbTaxCalculations = {}
    /\ req = [r \in Requests |-> IdleRequest]
    /\ firstRun = NoFirstRun
    /\ periodRuns = [y \in TaxYears |-> NoRun]

(***************************************************************************)
(* Queries.                                                                *)
(***************************************************************************)
\* orderBy: { <key>: 'asc' }, keys[i] being the key of row s[i]; rows with
\* equal keys stay in insertion order
SortAsc(s, keys) ==
    LET rank(i) == 1 + Cardinality({j \in 1..Len(s) :
                        \/ keys[j] < keys[i]
                        \/ (keys[j] = keys[i] /\ j < i)})
    IN  [p \in 1..Len(s) |-> s[CHOOSE i \in 1..Len(s) : rank(i) = p]]

\* variant: the rows of the year in the order they were stored
FindTransactions_Unsorted(yearStart, yearEnd) ==
    SelectSeq(dbTransactions,
              LAMBDA t : t.timestamp >= yearStart /\ t.timestamp <= yearEnd)

\* db.transaction.findMany({ where: { userId, timestamp: { gte, lte } }, orderBy: timestamp asc })
FindTransactions(yearStart, yearEnd) ==
    LET rows == SelectSeq(dbTransactions,
                          LAMBDA t : t.timestamp >= yearStart /\ t.timestamp <= yearEnd)
    IN  SortAsc(rows, [i \in 1..Len(rows) |-> rows[i].timestamp])

\* include: { transaction: { include: { cryptocurrency: true } } }
WithTransaction(l) ==
    [id |-> l.id, amount |-> l.amount, costBasis |-> l.costBasis,
     acquiredAt |-> l.acquiredAt, isClosed |-> l.isClosed,
     transaction |-> dbTransactions[l.transactionId]]

\* variant: every open lot, whenever it was acquired
FindPreviousTaxLots_AllOpen(yearStart) ==
    LET open == SelectSeq(dbTaxLots, LAMBDA l : ~l.isClosed)
        rows == SortAsc(open, [i \in 1..Len(open) |-> open[i].acquiredAt])
    IN  [i \in 1..Len(rows) |-> WithTransaction(rows[i])]

\* variant: the open lots of earlier years in the order they were stored
FindPreviousTaxLots_Unsorted(yearStart) ==
    LET rows == SelectSeq(dbTaxLots,
                          LAMBDA l : ~l.isClosed /\ l.acquiredAt < yearStart)
    IN  [i \in 1..Len(rows) |-> WithTransaction(rows[i])]

\* db.taxLot.findMany({ where: { isClosed: false, acquiredAt: { lt: yearStart } }, orderBy: acquiredAt asc })
FindPreviousTaxLots(yearStart) ==
    LET open == SelectSeq(dbTaxLots,
                          LAMBDA l : ~l.isClosed /\ l.acquiredAt < yearStart)
        rows == SortAsc(open, [i \in 1..Len(open) |-> open[i].acquiredAt])
    IN  [i \in 1..Len(rows) |-> WithTransaction(rows[i])]

(***************************************************************************)
(* Storing transactions.                                                   *)
(***************************************************************************)
MaxTx == 3

ValidTypes == {"BUY", "SELL", "TRANSFER_IN", "TRANSFER_OUT", "MINING_REWARD",
               "STAKING_REWARD", "AIRDROP", "FEE", "OTHER"}

NewTransaction(type, asset, amount, totalUsd, timestamp) ==
    [id |-> Len(dbTransactions) + 1, type |-> type, asset |-> asset,
     amount |-> Num(amount), totalUsd |-> Num(totalUsd), timestamp |-> timestamp]

\* db.taxLot.create for a BUY
NewStoredLot(t) ==
    [id |-> <<"taxLot", Len(dbTaxLots) + 1>>, transactionId |-> t.id,
     amount |-> t.amount, costBasis |-> t.totalUsd,
     acquiredAt |-> t.timestamp, isClosed |-> FALSE]

\* Bounding the ledger: at most MaxTx rows, stored before the first tax
\* calculation, while no request is being served, and newest first (the queries
\* sort what they read, so the order of storing shows only in the order of rows
\* with equal timestamps).
LedgerOpen(timestamp) ==
    /\ Len(dbTransactions) < MaxTx
    /\ \A r \in Requests : req[r].pc = "idle"
    /\ \A i \in 1..Len(dbTransactions) : dbTransactions[i].timestamp >= timestamp
    /\ dbTaxReports = {}

StoreTransaction(t) ==
    /\ dbTransactions' = Append(dbTransactions, t)
    /\ dbTaxLots' = IF t.type = "BUY" THEN Append(dbTaxLots, NewStoredLot(t))
                    ELSE dbTaxLots
    /\ periodRuns' = [y \in TaxYears |-> NoRun]
    /\ UNCHANGED <<dbTaxReports, dbTaxCalculations, req, firstRun>>

\* POST /api/transactions
PostTransaction(type, asset, amount, totalUsd, timestamp) ==
    /\ LedgerOpen(timestamp)
    /\ amount # 0               \* !body[field]: a zero amount is "missing"
    /\ totalUsd # 0
    /\ type \in ValidTypes
    /\ StoreTransaction(NewTransaction(type, asset, amount, totalUsd, timestamp))

\* POST /api/import: the body of the loop over the parsed transactions
ImportTransaction(type, asset, amount, totalUsd, timestamp) ==
    /\ LedgerOpen(timestamp)
    /\ ~\E i \in 1..Len(dbTransactions) :       \* existingTransaction: skipped
           LET e == dbTransactions[i]
           IN  /\ e.asset = asset /\ e.timestamp = timestamp /\ e.type = type
               /\ e.amount = Num(amount) /\ e.totalUsd = Num(totalUsd)
    /\ StoreTransaction(NewTransaction(type, asset, amount, totalUsd, timestamp))

(***************************************************************************)
(* POST /api/tax/calculate, up to the call of calculateGainsLosses.        *)
(***************************************************************************)
SetReq(r, q) == req' = [req EXCEPT ![r] = q]

\* request.json(), the check of userId and taxYear, yearStart/yearEnd and
\* the first query
TaxCalculatePost(r, taxYear) ==
    /\ req[r].pc = "idle"
    /\ taxYear # 0                              \* !taxYear: 400
    /\ SetReq(r, [IdleRequest EXCEPT
                    !.pc = "findLots",
                    !.taxYear = taxYear,
                    !.transactions = FindTransactions(YearStart(taxYear),
                                                      YearEnd(taxYear))])
    /\ UNCHANGED <<dbTransactions, dbTaxLots, dbTaxReports, dbTaxCalculations,
                   firstRun, periodRuns>>

\* variant: the rows come from a store shared by the requests in flight, so a
\* request is handed the lots as another request of the same year has left them
FindLots_Shared(r) ==
    /\ req[r].pc = "findLots"
    /\ LET rows == FindPreviousTaxLots(YearStart(req[r].taxYear))
           others == {o \in DOMAIN req :
                        /\ o # r
                        /\ req[o].taxYear = req[r].taxYear
                        /\ req[o].pc \in {"loop", "match", "returned"}}
           shared == IF others = {} THEN rows
                     ELSE LET o == CHOOSE x \in others : TRUE
                          IN  [i \in 1..Len(rows) |-> req[o].heap[i]]
       IN  SetReq(r, [req[r] EXCEPT
                        !.pc = "enter",
                        !.heap = shared,
                        !.previousTaxLots = [i \in 1..Len(rows) |-> i]])
    /\ UNCHANGED <<dbTransactions, dbTaxLots, dbTaxReports, dbTaxCalculations,
                   firstRun, periodRuns>>

\* the second query; the rows it returns are fresh objects of this request
FindLots(r) ==
    /\ req[r].pc = "findLots"
    /\ LET rows == FindPreviousTaxLots(YearStart(req[r].taxYear))
       IN  SetReq(r, [req[r] EXCEPT
                        !.pc = "enter",
                        !.heap = rows,
                        !.previousTaxLots = [i \in 1..Len(rows) |-> i]])
    /\ UNCHANGED <<dbTransactions, dbTaxLots, dbTaxReports, dbTaxCalculations,
                   firstRun, periodRuns>>

(***************************************************************************)
(* calculateGainsLosses.  Lots are objects: heap[ref] is the lot a         *)
(* reference points to, and previousTaxLots and availableLots are arrays   *)
(* of references.                                                          *)
(***************************************************************************)
LongTermDays == 365

\* let availableLots = [...previousTaxLots]
CopyArray(a) == [i \in 1..Len(a) |-> a[i]]

\* const newLot = { id: `lot-${transaction.id}`, ... }
NewLot(transaction) ==
    [id |-> <<"lot-", transaction.id>>, amount |-> transaction.amount,
     costBasis |-> transaction.totalUsd, acquiredAt |-> transaction.timestamp,
     isClosed |-> FALSE, transaction |-> transaction]

\* while (remainingAmount > 0 && availableLots.length > 0)
MatchGuard(remainingAmount, availableLots) ==
    NumGt(remainingAmount, Zero) /\ Len(availableLots) > 0

\* variant: the newest lot instead of the oldest
HeadLot_Last(availableLots) == availableLots[Len(availableLots)]

\* const lot = availableLots[0]
HeadLot(availableLots) == availableLots[1]

\* variant: the whole head lot, whatever is still unmatched
LotAmount_WholeLot(remainingAmount, lot) == lot.amount

\* variant: the whole unmatched quantity, without Math.min
LotAmount_NoMin(remainingAmount, lot) == remainingAmount

\* const lotAmount = Math.min(remainingAmount, lot.amount)
LotAmount(remainingAmount, lot) == NumMin(remainingAmount, lot.amount)

\* variant: the whole cost basis of the lot, whatever the quantity taken
LotCostBasis_Whole(lot, lotAmount) == lot.costBasis

\* const lotCostBasis = (lot.costBasis / lot.amount) * lotAmount
LotCostBasis(lot, lotAmount) ==
    NumMul(NumDiv(lot.costBasis, lot.amount), lotAmount)

\* variant: the whole value of the sale for every portion
LotProceeds_Whole(totalProceeds, transaction, lotAmount) == totalProceeds

\* const lotProceeds = (totalProceeds / transaction.amount) * lotAmount
LotProceeds(totalProceeds, transaction, lotAmount) ==
    NumMul(NumDiv(totalProceeds, transaction.amount), lotAmount)

\* const daysHeld = holdingPeriod / (1000 * 60 * 60 * 24)
DaysHeld(transaction, lot) ==
    NumDiv(Num(transaction.timestamp - lot.acquiredAt), Num(TicksPerDay))

\* variant: daysHeld >= 365
IsLongTerm_AtLeast(daysHeld) == ~NumGt(Num(LongTermDays), daysHeld)

\* const isLongTerm = daysHeld > 365
IsLongTerm(daysHeld) == NumGt(daysHeld, Num(LongTermDays))

\* variant: losses added with their sign, without Math.abs
UpdateTotals_Signed(result, gainLoss, isLongTerm) ==
    IF NumGt(gainLoss, Zero)
    THEN [result EXCEPT
            !.totalGains = NumAdd(@, gainLoss),
            !.longTermGains = IF isLongTerm THEN NumAdd(@, gainLoss) ELSE @,
            !.shortTermGains = IF isLongTerm THEN @ ELSE NumAdd(@, gainLoss)]
    ELSE [result EXCEPT
            !.totalLosses = NumAdd(@, gainLoss),
            !.longTermLosses = IF isLongTerm THEN NumAdd(@, gainLoss) ELSE @,
            !.shortTermLosses = IF isLongTerm THEN @ ELSE NumAdd(@, gainLoss)]

\* variant: a gain is added to shortTermGains whatever the term
UpdateTotals_BothTerms(result, gainLoss, isLongTerm) ==
    IF NumGt(gainLoss, Zero)
    THEN [result EXCEPT
            !.totalGains = NumAdd(@, gainLoss),
            !.longTermGains = IF isLongTerm THEN NumAdd(@, gainLoss) ELSE @,
            !.shortTermGains = NumAdd(@, gainLoss)]
    ELSE [result EXCEPT
            !.totalLosses = NumAdd(@, NumAbs(gainLoss)),
            !.longTermLosses = IF isLongTerm THEN NumAdd(@, NumAbs(gainLoss)) ELSE @,
            !.shortTermLosses = IF isLongTerm THEN @ ELSE NumAdd(@, NumAbs(gainLoss))]

\* if (gainLoss > 0) {...} else {...}
UpdateTotals(result, gainLoss, isLongTerm) ==
    IF NumGt(gainLoss, Zero)
    THEN [result EXCEPT
            !.totalGains = NumAdd(@, gainLoss),
            !.longTermGains = IF isLongTerm THEN NumAdd(@, gainLoss) ELSE @,
            !.shortTermGains = IF isLongTerm THEN @ ELSE NumAdd(@, gainLoss)]
    ELSE [result EXCEPT
            !.totalLosses = NumAdd(@, NumAbs(gainLoss)),
            !.longTermLosses = IF isLongTerm THEN NumAdd(@, NumAbs(gainLoss)) ELSE @,
            !.shortTermLosses = IF isLongTerm THEN @ ELSE NumAdd(@, NumAbs(gainLoss))]

\* result.transactions.push({...})
Detail(transaction, lotAmount, lotProceeds, lotCostBasis, gainLoss, isLongTerm) ==
    [id |-> transaction.id, type |-> transaction.type, amount |-> lotAmount,
     proceeds |-> lotProceeds, costBasis |-> lotCostBasis, gainLoss |-> gainLoss,
     term |-> IF isLongTerm THEN "long" ELSE "short",
     asset |-> transaction.asset, date |-> transaction.timestamp]

\* variant: the fully used lot stays at the head of the list
Shift_Keep(availableLots) == availableLots

\* availableLots.shift()
Shift(availableLots) == Tail(availableLots)

\* variant: the amount is reduced, the cost basis is not
PartiallyUse_AmountOnly(lot, lotAmount, lotCostBasis) ==
    [lot EXCEPT !.amount = NumSub(@, lotAmount)]

\* lot.amount -= lotAmount; lot.costBasis -= lotCostBasis
PartiallyUse(lot, lotAmount, lotCostBasis) ==
    [lot EXCEPT !.amount = NumSub(@, lotAmount),
                !.costBasis = NumSub(@, lotCostBasis)]

\* variant: result.costBasis = totalCostBasis
AddSellTotals_Assign(result, totalCostBasis, totalProceeds) ==
    [result EXCEPT !.costBasis = totalCostBasis,
                   !.proceeds = NumAdd(@, totalProceeds)]

\* result.costBasis += totalCostBasis; result.proceeds += totalProceeds
AddSellTotals(result, totalCostBasis, totalProceeds) ==
    [result EXCEPT !.costBasis = NumAdd(@, totalCostBasis),
                   !.proceeds = NumAdd(@, totalProceeds)]

\* the amounts of the open lots, as a disposal finds them
LotsSeen(q) ==
    [i \in 1..Len(q.availableLots) |->
        [ref |-> q.availableLots[i],
         amount |-> q.heap[q.availableLots[i]].amount,
         costBasis |-> q.heap[q.availableLots[i]].costBasis]]

\* the lots the caller's previousTaxLots array holds, by value
CallerLots(q) == [i \in 1..Len(q.previousTaxLots) |-> q.heap[q.previousTaxLots[i]]]

\* entry: the result object and the copy of the carried-over array
CalcEnter(r) ==
    /\ req[r].pc = "enter"
    /\ SetReq(r, [req[r] EXCEPT
                    !.pc = "loop",
                    !.result = EmptyResult,
                    !.availableLots = CopyArray(req[r].previousTaxLots),
                    !.idx = 1,
                    !.matchedLots = <<>>,
                    !.sellStart = <<>>,
                    !.lotsAtEntry = CallerLots(req[r])])
    /\ UNCHANGED <<dbTransactions, dbTaxLots, dbTaxReports, dbTaxCalculations,
                   firstRun, periodRuns>>

AtEvent(r) ==
    /\ req[r].pc = "loop"
    /\ req[r].idx <= Len(req[r].transactions)

\* variant: availableLots.unshift(newLot)
ProcessBuy_Unshift(r) ==
    /\ AtEvent(r)
    /\ LET q == req[r]
           transaction == q.transactions[q.idx]
       IN  /\ transaction.type = "BUY"
           /\ SetReq(r, [q EXCEPT
                           !.heap = Append(@, NewLot(transaction)),
                           !.availableLots = <<Len(q.heap) + 1>> \o @,
                           !.idx = @ + 1])
    /\ UNCHANGED <<dbTransactions, dbTaxLots, dbTaxReports, dbTaxCalculations,
                   firstRun, periodRuns>>

\* transaction.type === 'BUY'
ProcessBuy(r) ==
    /\ AtEvent(r)
    /\ LET q == req[r]
           transaction == q.transactions[q.idx]
       IN  /\ transaction.type = "BUY"
           /\ SetReq(r, [q EXCEPT
                           !.heap = Append(@, NewLot(transaction)),
                           !.availableLots = Append(@, Len(q.heap) + 1),
                           !.idx = @ + 1])
    /\ UNCHANGED <<dbTransactions, dbTaxLots, dbTaxReports, dbTaxCalculations,
                   firstRun, periodRuns>>

\* variant: an event that is not a SELL is taken for an acquisition
ProcessOther_AsBuy(r) ==
    /\ AtEvent(r)
    /\ LET q == req[r]
           transaction == q.transactions[q.idx]
       IN  /\ transaction.type \notin {"BUY", "SELL"}
           /\ SetReq(r, [q EXCEPT
                           !.heap = Append(@, NewLot(transaction)),
                           !.availableLots = Append(@, Len(q.heap) + 1),
                           !.idx = @ + 1])
    /\ UNCHANGED <<dbTransactions, dbTaxLots, dbTaxReports, dbTaxCalculations,
                   firstRun, periodRuns>>

\* neither branch of the if: the event is passed over
ProcessOther(r) ==
    /\ AtEvent(r)
    /\ req[r].transactions[req[r].idx].type \notin {"BUY", "SELL"}
    /\ SetReq(r, [req[r] EXCEPT !.idx = @ + 1])
    /\ UNCHANGED <<dbTransactions, dbTaxLots, dbTaxReports, dbTaxCalculations,
                   firstRun, periodRuns>>

\* transaction.type === 'SELL': the three locals of the disposal
SellBegin(r) ==
    /\ AtEvent(r)
    /\ LET q == req[r]
           transaction == q.transactions[q.idx]
       IN  /\ transaction.type = "SELL"
           /\ SetReq(r, [q EXCEPT
                           !.pc = "match",
                           !.remainingAmount = transaction.amount,
                           !.totalCostBasis = Zero,
                           !.totalProceeds = transaction.totalUsd,
                           !.sellStart = LotsSeen(q)])
    /\ UNCHANGED <<dbTransactions, dbTaxLots, dbTaxReports, dbTaxCalculations,
                   firstRun, periodRuns>>

\* one iteration of the while loop; each const of the body is bound once
MatchLot(r) ==
    /\ req[r].pc = "match"
    /\ MatchGuard(req[r].remainingAmount, req[r].availableLots)
    /\ \E q \in {req[r]} :
       \E transaction \in {q.transactions[q.idx]}, ref \in {HeadLot(q.availableLots)} :
       \E lot \in {q.heap[ref]} :
       \E lotAmount \in {LotAmount(q.remainingAmount, lot)} :
       \E lotCostBasis \in {LotCostBasis(lot, lotAmount)},
          lotProceeds \in {LotProceeds(q.totalProceeds, transaction, lotAmount)} :
       \E gainLoss \in {NumSub(lotProceeds, lotCostBasis)},
          isLongTerm \in {IsLongTerm(DaysHeld(transaction, lot))} :
       \E result1 \in {UpdateTotals(q.result, gainLoss, isLongTerm)} :
       \E result2 \in {[result1 EXCEPT !.transactions =
                          Append(@, Detail(transaction, lotAmount, lotProceeds,
                                           lotCostBasis, gainLoss, isLongTerm))]},
          fullyUsed \in {NumStrictEq(lotAmount, lot.amount)} :
           SetReq(r, [q EXCEPT
                        !.totalCostBasis = NumAdd(@, lotCostBasis),
                        !.result = result2,
                        !.matchedLots = Append(@, ref),
                        !.availableLots = IF fullyUsed THEN Shift(@) ELSE @,
                        !.heap = IF fullyUsed THEN @
                                 ELSE [@ EXCEPT ![ref] =
                                         PartiallyUse(lot, lotAmount, lotCostBasis)],
                        !.remainingAmount = NumSub(@, lotAmount)])
    /\ UNCHANGED <<dbTransactions, dbTaxLots, dbTaxReports, dbTaxCalculations,
                   firstRun, periodRuns>>

\* the loop has ended
SellEnd(r) ==
    /\ req[r].pc = "match"
    /\ ~MatchGuard(req[r].remainingAmount, req[r].availableLots)
    /\ SetReq(r, [req[r] EXCEPT
                    !.pc = "loop",
                    !.result = AddSellTotals(@, req[r].totalCostBasis,
                                             req[r].totalProceeds),
                    !.idx = @ + 1])
    /\ UNCHANGED <<dbTransactions, dbTaxLots, dbTaxReports, dbTaxCalculations,
                   firstRun, periodRuns>>

\* the acquisition a lot stands for
LotTx(lot) == lot.transaction.id

\* what a finished run leaves: the open lots, the lots it used up, the matches
RunRecord(q) ==
    [done |-> TRUE,
     open |-> [i \in 1..Len(q.availableLots) |->
                 LET lot == q.heap[q.availableLots[i]]
                 IN  [tx |-> LotTx(lot), amount |-> lot.amount,
                      costBasis |-> lot.costBasis, acquiredAt |-> lot.acquiredAt]],
     closed |-> {LotTx(q.heap[ref]) : ref \in 1..Len(q.heap)}
                  \ {LotTx(q.heap[q.availableLots[i]]) : i \in 1..Len(q.availableLots)},
     matched |-> [i \in 1..Len(q.matchedLots) |->
                    [tx |-> LotTx(q.heap[q.matchedLots[i]]),
                     amount |-> q.result.transactions[i].amount]]]

\* result.netGainLoss = result.totalGains - result.totalLosses; return result
CalcReturn(r) ==
    /\ req[r].pc = "loop"
    /\ req[r].idx > Len(req[r].transactions)
    /\ SetReq(r, [req[r] EXCEPT
                    !.pc = "returned",
                    !.result = [@ EXCEPT !.netGainLoss =
                                   NumSub(req[r].result.totalGains,
                                          req[r].result.totalLosses)]])
    /\ periodRuns' = IF req[r].taxYear \in TaxYears
                     THEN [periodRuns EXCEPT ![req[r].taxYear] = RunRecord(req[r])]
                     ELSE periodRuns
    /\ UNCHANGED <<dbTransactions, dbTaxLots, dbTaxReports, dbTaxCalculations,
                   firstRun>>

(***************************************************************************)
(* POST /api/tax/calculate, after calculateGainsLosses has returned.       *)
(***************************************************************************)
\* db.taxReport.upsert
UpsertTaxReport(r) ==
    /\ req[r].pc = "returned"
    /\ dbTaxReports' = dbTaxReports \cup {req[r].taxYear}
    /\ SetReq(r, [req[r] EXCEPT !.pc = "upsertCalculation"])
    /\ UNCHANGED <<dbTransactions, dbTaxLots, dbTaxCalculations, firstRun, periodRuns>>

CalculationRow(taxYear, c) ==
    [taxYear |-> taxYear,
     shortTermGains |-> c.shortTermGains, longTermGains |-> c.longTermGains,
     shortTermLosses |-> c.shortTermLosses, longTermLosses |-> c.longTermLosses,
     totalGains |-> c.totalGains, totalLosses |-> c.totalLosses,
     netGainLoss |-> c.netGainLoss, costBasis |-> c.costBasis,
     proceeds |-> c.proceeds]

\* db.taxCalculation.upsert
UpsertTaxCalculation(r) ==
    /\ req[r].pc = "upsertCalculation"
    /\ dbTaxCalculations' =
          {row \in dbTaxCalculations : row.taxYear # req[r].taxYear}
             \cup {CalculationRow(req[r].taxYear, req[r].result)}
    /\ SetReq(r, [req[r] EXCEPT !.pc = "respond"])
    /\ UNCHANGED <<dbTransactions, dbTaxLots, dbTaxReports, firstRun, periodRuns>>

\* variant: before responding, the handler writes the state of the lots it
\* worked on back to their rows (db.taxLot.update)
Respond_WriteBack(r) ==
    /\ req[r].pc = "respond"
    /\ dbTaxLots' =
          [i \in 1..Len(dbTaxLots) |->
             LET l == dbTaxLots[i]
                 refs == {k \in 1..Len(req[r].heap) : req[r].heap[k].id = l.id}
             IN  IF refs = {} THEN l
                 ELSE LET k == CHOOSE x \in refs : TRUE
                      IN  [l EXCEPT
                             !.amount = req[r].heap[k].amount,
                             !.costBasis = req[r].heap[k].costBasis,
                             !.isClosed =
                                 ~\E j \in 1..Len(req[r].availableLots) :
                                     req[r].availableLots[j] = k]]
    /\ SetReq(r, IdleRequest)
    /\ UNCHANGED <<dbTransactions, dbTaxReports, dbTaxCalculations,
                   firstRun, periodRuns>>

\* return NextResponse.json({ success: true, data: calculation, ... })
Respond(r) ==
    /\ req[r].pc = "respond"
    /\ SetReq(r, IdleRequest)
    /\ UNCHANGED <<dbTransactions, dbTaxLots, dbTaxReports, dbTaxCalculations,
                   firstRun, periodRuns>>

Calculate(r) ==
    \/ CalcEnter(r)
    \/ ProcessBuy(r)
    \/ ProcessOther(r)
    \/ SellBegin(r)
    \/ MatchLot(r)
    \/ SellEnd(r)
    \/ CalcReturn(r)

(***************************************************************************)
(* calculateGainsLosses as a function of its two arguments taken by value: *)
(* what a call returns when it is given lots of its own.                   *)
(***************************************************************************)
\* the while loop of a SELL, run to its end
RECURSIVE MatchAll(_, _, _, _, _)
MatchAll(transaction, remainingAmount, totalCostBasis, lots, result) ==
    IF ~MatchGuard(remainingAmount, lots)
    THEN [lots |-> lots, totalCostBasis |-> totalCostBasis, result |-> result]
    ELSE LET lot == HeadLot(lots)
             lotAmount == LotAmount(remainingAmount, lot)
             lotCostBasis == LotCostBasis(lot, lotAmount)
             lotProceeds == LotProceeds(transaction.totalUsd, transaction, lotAmount)
             gainLoss == NumSub(lotProceeds, lotCostBasis)
             isLongTerm == IsLongTerm(DaysHeld(transaction, lot))
             result1 == UpdateTotals(result, gainLoss, isLongTerm)
             result2 == [result1 EXCEPT !.transactions =
                            Append(@, Detail(transaction, lotAmount, lotProceeds,
                                             lotCostBasis, gainLoss, isLongTerm))]
         IN  MatchAll(transaction,
                      NumSub(remainingAmount, lotAmount),
                      NumAdd(totalCostBasis, lotCostBasis),
                      IF NumStrictEq(lotAmount, lot.amount) THEN Shift(lots)
                      ELSE <<PartiallyUse(lot, lotAmount, lotCostBasis)>> \o Tail(lots),
                      result2)

\* the for loop, run to its end, and the net of the totals
RECURSIVE ProcessAll(_, _, _)
ProcessAll(transactions, lots, result) ==
    IF transactions = <<>>
    THEN [result EXCEPT !.netGainLoss = NumSub(result.totalGains, result.totalLosses)]
    ELSE LET transaction == Head(transactions)
         IN  IF transaction.type = "BUY"
             THEN ProcessAll(Tail(transactions), Append(lots, NewLot(transaction)), result)
             ELSE IF transaction.type = "SELL"
             THEN LET m == MatchAll(transaction, transaction.amount, Zero, lots, result)
                  IN  ProcessAll(Tail(transactions), m.lots,
                                 AddSellTotals(m.result, m.totalCostBasis,
                                               transaction.totalUsd))
             ELSE ProcessAll(Tail(transactions), lots, result)

GainsLosses(transactions, previousTaxLots) ==
    ProcessAll(transactions, previousTaxLots, EmptyResult)

(***************************************************************************)
(* The ledger of one user and the tax-calculate requests on it, served one *)
(* at a time.  Every row belongs to that user, so the userId filters of the *)
(* queries select every row.                                               *)
(***************************************************************************)
\* 1 and 2 January 2023, one tick after 31 December 2023 23:59:59, 1 January 2024
Times == {YearStart(2023), YearStart(2023) + TicksPerDay, YearEnd(2023) + 1,
          YearStart(2024)}

\* what the two POST handlers are sent; a negative amount passes the checks of
\* both (it is neither falsy nor NaN)
LedgerInputs ==
    {e \in [type : {"BUY", "SELL", "AIRDROP"}, asset : {"BTC"}, amount : {-1, 1, 4},
            totalUsd : {100}, timestamp : Times] :
        /\ e.type = "AIRDROP" => (e.amount = 1 /\ e.timestamp = YearStart(2023))
        /\ e.amount = -1 => (e.type = "SELL" /\ e.timestamp = YearStart(2023))
        /\ e.timestamp = YearEnd(2023) + 1 => (e.type = "SELL" /\ e.amount = 1)}

Next ==
    \/ \E e \in LedgerInputs :
          PostTransaction(e.type, e.asset, e.amount, e.totalUsd, e.timestamp)
    \/ \E e \in LedgerInputs :
          ImportTransaction(e.type, e.asset, e.amount, e.totalUsd, e.timestamp)
    \/ \E r \in Requests, y \in TaxYears : TaxCalculatePost(r, y)
    \/ \E r \in Requests : FindLots(r)
    \/ \E r \in Requests : Calculate(r)
    \/ \E r \in Requests : UpsertTaxReport(r)
    \/ \E r \in Requests : UpsertTaxCalculation(r)
    \/ \E r \in Requests : Respond(r)

Spec == Init /\ [][Next]_vars

(***************************************************************************)
(* calculateGainsLosses called on its own: a carried-over snapshot of at   *)
(* most MaxPrior lots in acquiredAt order, a list of at most MaxEvents     *)
(* events in timestamp order, and a second call with the same two          *)
(* arguments once the first has returned.  The oldest carried-over lot may *)
(* be of another asset or of quantity 0; the later ones are BTC lots of    *)
(* positive quantity.                                                      *)
(***************************************************************************)
MaxPrior == 2

MaxEvents == 2

Day(n) == n * TicksPerDay

PriorInputs ==
    {[asset |-> "BTC", amount |-> 1], [asset |-> "BTC", amount |-> 2],
     [asset |-> "ETH", amount |-> 1], [asset |-> "BTC", amount |-> 0]}

EventInputs ==
    {e \in [type : {"BUY", "SELL", "AIRDROP"}, amount : {1, 2, 3}] :
        /\ e.type = "BUY" => e.amount = 2
        /\ e.type = "AIRDROP" => e.amount = 1}

EventTimes == {Day(365), Day(366)}

\* when the i-th carried-over lot was bought: day 0, then one tick short of
\* each following day
PriorAcquiredAt(i) == Day(i - 1) - (i - 1)

\* the i-th carried-over lot, bought for 100
PriorLot(i, p) ==
    [id |-> <<"taxLot", i>>, amount |-> Num(p.amount), costBasis |-> Num(100),
     acquiredAt |-> PriorAcquiredAt(i), isClosed |-> FALSE,
     transaction |-> [id |-> -i, type |-> "BUY", asset |-> p.asset,
                      amount |-> Num(p.amount), totalUsd |-> Num(100),
                      timestamp |-> PriorAcquiredAt(i)]]

\* the j-th event of the period: BTC, for 100
Event(j, e, t) ==
    [id |-> j, type |-> e.type, asset |-> "BTC", amount |-> Num(e.amount),
     totalUsd |-> Num(100), timestamp |-> t]

InitCalc ==
    /\ dbTransactions = <<>>
    /\ dbTaxLots = <<>>
    /\ dbTaxReports = {}
    /\ dbTaxCalculations = {}
    /\ firstRun = NoFirstRun
    /\ periodRuns = [y \in TaxYears |-> NoRun]
    /\ \E np \in 0..MaxPrior, ne \in 0..MaxEvents :
         \E ps \in [1..np -> PriorInputs], es \in [1..ne -> EventInputs],
            ts \in [1..ne -> EventTimes] :
            /\ \A j \in 1..ne : \A k \in 1..ne : j < k => ts[j] <= ts[k]
            /\ \A i \in 2..np : ps[i].asset = "BTC" /\ ps[i].amount > 0
            /\ req = [r \in Requests |->
                       [IdleRequest EXCEPT
                          !.pc = "enter",
                          !.transactions = [j \in 1..ne |-> Event(j, es[j], ts[j])],
                          !.heap = [i \in 1..np |-> PriorLot(i, ps[i])],
                          !.previousTaxLots = [i \in 1..np |-> i]]]

\* the caller calls again with the event list and the snapshot it still holds
CallAgain(r) ==
    /\ req[r].pc = "returned"
    /\ ~firstRun.done
    /\ firstRun' = [done |-> TRUE, result |-> req[r].result]
    /\ SetReq(r, [req[r] EXCEPT !.pc = "enter"])
    /\ UNCHANGED <<dbTransactions, dbTaxLots, dbTaxReports, dbTaxCalculations,
                   periodRuns>>

NextCalc ==
    \/ \E r \in Requests : Calculate(r)
    \/ \E r \in Requests : CallAgain(r)

SpecCalc == InitCalc /\ [][NextCalc]_vars

(***************************************************************************)
(* calculateGainsLosses called on an event stream with no carried-over     *)
(* lots: any list of at most MaxStream events over two assets, in any      *)
(* order of timestamps (the function receives an array and does not look   *)
(* at its order; the handler passes it the rows sorted by timestamp).      *)
(***************************************************************************)
MaxStream == 3

StreamInputs ==
    {[type |-> "BUY", asset |-> "BTC", amount |-> 2, totalUsd |-> 100],
     [type |-> "BUY", asset |-> "BTC", amount |-> 3, totalUsd |-> 210],
     [type |-> "SELL", asset |-> "BTC", amount |-> 4, totalUsd |-> 800],
     [type |-> "BUY", asset |-> "ETH", amount |-> 2, totalUsd |-> 100],
     [type |-> "SELL", asset |-> "ETH", amount |-> 4, totalUsd |-> 800],
     [type |-> "AIRDROP", asset |-> "BTC", amount |-> 2, totalUsd |-> 100]}

StreamTimes == {Day(0), Day(10), Day(400)}

\* the j-th event of the stream
StreamEvent(j, e, t) ==
    [id |-> j, type |-> e.type, asset |-> e.asset, amount |-> Num(e.amount),
     totalUsd |-> Num(e.totalUsd), timestamp |-> t]

InitStream ==
    /\ dbTransactions = <<>>
    /\ dbTaxLots = <<>>
    /\ dbTaxReports = {}
    /\ dbTaxCalculations = {}
    /\ firstRun = NoFirstRun
    /\ periodRuns = [y \in TaxYears |-> NoRun]
    /\ \E ne \in 0..MaxStream :
         \E es \in [1..ne -> StreamInputs], ts \in [1..ne -> StreamTimes] :
            req = [r \in Requests |->
                     [IdleRequest EXCEPT
                        !.pc = "enter",
                        !.transactions = [j \in 1..ne |-> StreamEvent(j, es[j], ts[j])]]]

NextStream == \E r \in Requests : Calculate(r)

SpecStream == InitStream /\ [][NextStream]_vars

(***************************************************************************)
(* Two tax-calculate requests of one user served concurrently on a stored  *)
(* ledger of at most MaxStored rows: the steps of the two requests         *)
(* interleave in every way (the handler yields at each await).             *)
(***************************************************************************)
MaxStored == 3

Pair == {1, 2}

PairInputs ==
    {[type |-> "BUY", asset |-> "BTC", amount |-> 2, totalUsd |-> 100,
      timestamp |-> YearStart(2023)],
     [type |-> "SELL", asset |-> "BTC", amount |-> 1, totalUsd |-> 100,
      timestamp |-> YearStart(2024)],
     [type |-> "AIRDROP", asset |-> "BTC", amount |-> 1, totalUsd |-> 100,
      timestamp |-> YearStart(2024)]}

\* the rows db.transaction.create has stored for a sequence of inputs
StoredRows(es) ==
    [i \in 1..Len(es) |->
        [id |-> i, type |-> es[i].type, asset |-> es[i].asset,
         amount |-> Num(es[i].amount), totalUsd |-> Num(es[i].totalUsd),
         timestamp |-> es[i].timestamp]]

\* the rows db.taxLot.create has stored for them: one per BUY
StoredLots(rows) ==
    LET buys == SelectSeq(rows, LAMBDA t : t.type = "BUY")
    IN  [k \in 1..Len(buys) |->
           [id |-> <<"taxLot", k>>, transactionId |-> buys[k].id,
            amount |-> buys[k].amount, costBasis |-> buys[k].totalUsd,
            acquiredAt |-> buys[k].timestamp, isClosed |-> FALSE]]

InitPair ==
    /\ dbTaxReports = {}
    /\ dbTaxCalculations = {}
    /\ firstRun = NoFirstRun
    /\ periodRuns = [y \in TaxYears |-> NoRun]
    /\ req = [r \in Pair |-> IdleRequest]
    /\ \E n \in 0..MaxStored : \E es \in [1..n -> PairInputs] :
          /\ \A i \in 1..n : \A j \in 1..n :
                i < j => es[i].timestamp >= es[j].timestamp
          /\ dbTransactions = StoredRows(es)
          /\ dbTaxLots = StoredLots(StoredRows(es))

NextPair ==
    \/ \E r \in Pair, y \in TaxYears : TaxCalculatePost(r, y)
    \/ \E r \in Pair : FindLots(r)
    \/ \E r \in Pair : Calculate(r)
    \/ \E r \in Pair : UpsertTaxReport(r)
    \/ \E r \in Pair : UpsertTaxCalculation(r)
    \/ \E r \in Pair : Respond(r)

SpecPair == InitPair /\ [][NextPair]_vars

(***************************************************************************)
(* calculateGainsLosses on events whose amounts are zero or negative: the  *)
(* transaction route refuses a zero amount but not a negative one, and the *)
(* import stores whatever parses as a number.  The function is synchronous *)
(* code, so each of its steps is taken once it is enabled.                 *)
(***************************************************************************)
MaxSigned == 3

SignedInputs ==
    [type : {"BUY"}, asset : {"BTC"}, amount : {-1, 0, 2}, totalUsd : {100}]
    \cup [type : {"SELL"}, asset : {"BTC"}, amount : {-1, 0, 1, 3}, totalUsd : {100}]
    \cup [type : {"AIRDROP"}, asset : {"BTC"}, amount : {1}, totalUsd : {100}]

InitSigned ==
    /\ dbTransactions = <<>>
    /\ dbTaxLots = <<>>
    /\ dbTaxReports = {}
    /\ dbTaxCalculations = {}
    /\ firstRun = NoFirstRun
    /\ periodRuns = [y \in TaxYears |-> NoRun]
    /\ \E ne \in 0..MaxSigned : \E es \in [1..ne -> SignedInputs] :
          req = [r \in Requests |->
                   [IdleRequest EXCEPT
                      !.pc = "enter",
                      !.transactions =
                          [j \in 1..ne |-> StreamEvent(j, es[j], Day(j - 1))]]]

NextSigned == \E r \in Requests : Calculate(r)

SpecSigned == InitSigned /\ [][NextSigned]_vars /\ WF_vars(NextSigned)

(***************************************************************************)
(* Properties.                                                             *)
(***************************************************************************)
RECURSIVE SumNum(_)
SumNum(xs) == IF xs = <<>> THEN Zero ELSE NumAdd(xs[1], SumNum(Tail(xs)))

Portions(q) == q.result.transactions

\* the lot the i-th matched portion was taken from
PortionLot(q, i) == q.heap[q.matchedLots[i]]

\* the event list has been processed to its end
RunComplete(q) == q.pc \in {"returned", "upsertCalculation", "respond"}

\* the disposal at idx - 1 has just been processed
AfterSell(q) ==
    /\ q.pc = "loop"
    /\ q.idx > 1
    /\ q.transactions[q.idx - 1].type = "SELL"

\* C1: every matched portion is taken from a lot of the disposal's own asset,
\* so a SELL of one asset never reduces or removes a lot of another asset.
C1_SameAssetOnly ==
    \A r \in Requests :
        \A i \in 1..Len(req[r].matchedLots) :
            PortionLot(req[r], i).transaction.asset = Portions(req[r])[i].asset

\* While and right after a disposal is matched: the lots that left the list are
\* the oldest ones the disposal found, every open lot but the head still has the
\* amount and cost basis the disposal found, and the head is the oldest open lot.
FifoSoFar(q) ==
    LET k == Len(q.sellStart) - Len(q.availableLots)
    IN  /\ k >= 0
        /\ \A i \in 1..Len(q.availableLots) :
              q.availableLots[i] = q.sellStart[k + i].ref
        /\ \A i \in 2..Len(q.availableLots) :
              /\ q.heap[q.availableLots[i]].amount = q.sellStart[k + i].amount
              /\ q.heap[q.availableLots[i]].costBasis = q.sellStart[k + i].costBasis
        /\ \A i \in 1..Len(q.availableLots) :
              q.heap[q.availableLots[1]].acquiredAt
                 <= q.heap[q.availableLots[i]].acquiredAt
        /\ \A i \in 1..k : \A j \in 1..Len(q.availableLots) :
              q.heap[q.sellStart[i].ref].acquiredAt
                 <= q.heap[q.availableLots[j]].acquiredAt

\* a disposal of q1 + q2/2 has just been matched against exactly three open
\* lots of positive quantities q1, q2, q3 acquired at t1 < t2 < t3
ThreeLotDisposal(q) ==
    /\ AfterSell(q)
    /\ Len(q.sellStart) = 3
    /\ \A i \in 1..3 : NumGt(q.sellStart[i].amount, Zero)
    /\ q.heap[q.sellStart[1].ref].acquiredAt < q.heap[q.sellStart[2].ref].acquiredAt
    /\ q.heap[q.sellStart[2].ref].acquiredAt < q.heap[q.sellStart[3].ref].acquiredAt
    /\ q.transactions[q.idx - 1].amount
          = NumAdd(q.sellStart[1].amount, NumDiv(q.sellStart[2].amount, Num(2)))

\* C2: FIFO order.  A lot is consumed only after every older open lot has left
\* the list, and a disposal of q1 + q2/2 against lots q1, q2, q3 (t1 < t2 < t3)
\* removes lot1, leaves lot2 with q2/2 and leaves lot3 as it was.
C2_FifoOrder ==
    \A r \in Requests :
        LET q == req[r]
        IN  /\ (q.pc = "match" \/ AfterSell(q)) => FifoSoFar(q)
            /\ ThreeLotDisposal(q) =>
                  /\ q.availableLots = <<q.sellStart[2].ref, q.sellStart[3].ref>>
                  /\ q.heap[q.sellStart[2].ref].amount
                        = NumDiv(q.sellStart[2].amount, Num(2))
                  /\ q.heap[q.sellStart[3].ref].amount = q.sellStart[3].amount
                  /\ q.heap[q.sellStart[3].ref].costBasis = q.sellStart[3].costBasis

C2_Witness == \E r \in Requests : ThreeLotDisposal(req[r])

\* the quantity of the j-th event that the detail list accounts for
MatchedFor(q, j) ==
    SumNum([i \in 1..Len(SelectSeq(Portions(q),
                                   LAMBDA p : p.id = q.transactions[j].id)) |->
              SelectSeq(Portions(q),
                        LAMBDA p : p.id = q.transactions[j].id)[i].amount])

\* C3: a disposal larger than the open lots is signalled and not truncated: a
\* run returns a summary only if every disposal in it was matched in full.
C3_ShortfallSignalled ==
    \A r \in Requests :
        RunComplete(req[r]) =>
            \A j \in 1..Len(req[r].transactions) :
                (/\ req[r].transactions[j].type = "SELL"
                 /\ NumGt(req[r].transactions[j].amount, Zero))
                    => MatchedFor(req[r], j) = req[r].transactions[j].amount

\* the carried-over lots a request starts from, in order
Seeds(q) ==
    [i \in 1..Len(q.previousTaxLots) |->
        LET lot == q.heap[q.previousTaxLots[i]]
        IN  [tx |-> LotTx(lot), amount |-> lot.amount,
             costBasis |-> lot.costBasis, acquiredAt |-> lot.acquiredAt]]

\* C4: carryover continuity.  A lot that the run of period N left open and
\* partially consumed is among the lots period N+1 starts from, with the
\* remaining quantity, cost basis and acquiredAt the run of period N left.
C4_Carryover ==
    \A r \in Requests :
        LET q == req[r]
        IN  (/\ q.pc = "enter"
             /\ q.taxYear - 1 \in TaxYears
             /\ periodRuns[q.taxYear - 1].done)
               => \A i \in 1..Len(periodRuns[q.taxYear - 1].open) :
                     LET left == periodRuns[q.taxYear - 1].open[i]
                     IN  left.amount # dbTransactions[left.tx].amount
                            => \E k \in 1..Len(Seeds(q)) : Seeds(q)[k] = left

\* the quantity the last run of year y matched against the lot of acquisition tx
MatchedInYear(y, tx) ==
    SumNum([i \in 1..Len(SelectSeq(periodRuns[y].matched, LAMBDA m : m.tx = tx)) |->
              SelectSeq(periodRuns[y].matched, LAMBDA m : m.tx = tx)[i].amount])

RECURSIVE SumOverYears(_, _)
SumOverYears(ys, tx) ==
    IF ys = {} THEN Zero
    ELSE LET y == CHOOSE z \in ys : TRUE
         IN  NumAdd(MatchedInYear(y, tx), SumOverYears(ys \ {y}, tx))

\* C5: a closed lot is excluded from future matching.  Over the runs of the
\* periods, a lot that the run of an earlier period used up is matched by no
\* disposal of a later period, and no lot is matched for more than its original
\* quantity in total.
C5_ClosedLotsExcluded ==
    /\ \A y1 \in TaxYears : \A y2 \in TaxYears :
          (y1 < y2 /\ periodRuns[y1].done /\ periodRuns[y2].done)
             => \A i \in 1..Len(periodRuns[y2].matched) :
                   periodRuns[y2].matched[i].tx \notin periodRuns[y1].closed
    /\ \A tx \in 1..Len(dbTransactions) :
          dbTransactions[tx].type = "BUY"
             => ~NumGt(SumOverYears(TaxYears, tx), dbTransactions[tx].amount)

\* how long the lot of the i-th portion was held, in ticks
HeldTicks(q, i) == Portions(q)[i].date - PortionLot(q, i).acquiredAt

\* C6: a portion is long-term exactly when the lot was held for more than 365
\* days: held for exactly 365 days it is short-term, for 366 days long-term.
C6_HoldingBoundary ==
    \A r \in Requests :
        \A i \in 1..Len(req[r].matchedLots) :
            /\ (Portions(req[r])[i].term = "long")
                  <=> (HeldTicks(req[r], i) > LongTermDays * TicksPerDay)
            /\ HeldTicks(req[r], i) = Day(365) => Portions(req[r])[i].term = "short"
            /\ HeldTicks(req[r], i) = Day(366) => Portions(req[r])[i].term = "long"
            /\ Portions(req[r])[i].term \in {"short", "long"}

C6_Witness ==
    \E r \in Requests :
        \E i \in 1..Len(req[r].matchedLots) : \E j \in 1..Len(req[r].matchedLots) :
            /\ HeldTicks(req[r], i) = Day(365)
            /\ HeldTicks(req[r], j) = Day(366)
            /\ \E k \in 1..Len(req[r].matchedLots) :
                  /\ HeldTicks(req[r], k) = Day(365) + 1
                  /\ Portions(req[r])[k].term = "long"

\* C7: the summary's total proceeds is the sum of the allocated proceeds of
\* the matched portions, whether or not every disposal found enough lots.
C7_ProceedsConserved ==
    \A r \in Requests :
        RunComplete(req[r]) =>
            req[r].result.proceeds
               = SumNum([i \in 1..Len(Portions(req[r])) |-> Portions(req[r])[i].proceeds])

C11_SnapshotNotAliased ==
    \A r \in Requests :
        req[r].pc = "returned" => CallerLots(req[r]) = req[r].lotsAtEntry

\* what the run of a stream left: the open lots, by value
OpenLots(q) == [i \in 1..Len(q.availableLots) |-> q.heap[q.availableLots[i]]]

\* acquire 2 for 100 on day 0, acquire 3 for 210 on day 10, dispose of 4 for 800
\* on day 400
WorkedScenario ==
    <<StreamEvent(1, [type |-> "BUY", asset |-> "BTC", amount |-> 2, totalUsd |-> 100],
                  Day(0)),
      StreamEvent(2, [type |-> "BUY", asset |-> "BTC", amount |-> 3, totalUsd |-> 210],
                  Day(10)),
      StreamEvent(3, [type |-> "SELL", asset |-> "BTC", amount |-> 4, totalUsd |-> 800],
                  Day(400))>>

\* C12: the worked scenario, with no prior lots, yields two long-term portions
\* (2 units with cost 100, 2 units with cost 140), a gain of 560 all in
\* longTermGains with the other three buckets at 0, and leaves one open lot of
\* 1 unit with cost 70.
C12_WorkedScenario ==
    \A r \in Requests :
        LET q == req[r]
        IN  (q.pc = "returned" /\ q.transactions = WorkedScenario /\ q.lotsAtEntry = <<>>)
               => /\ Len(Portions(q)) = 2
                  /\ Portions(q)[1].amount = Num(2)
                  /\ Portions(q)[1].costBasis = Num(100)
                  /\ Portions(q)[1].term = "long"
                  /\ Portions(q)[2].amount = Num(2)
                  /\ Portions(q)[2].costBasis = Num(140)
                  /\ Portions(q)[2].term = "long"
                  /\ NumAdd(Portions(q)[1].gainLoss, Portions(q)[2].gainLoss) = Num(560)
                  /\ q.result.longTermGains = Num(560)
                  /\ q.result.shortTermGains = Zero
                  /\ q.result.shortTermLosses = Zero
                  /\ q.result.longTermLosses = Zero
                  /\ q.result.totalGains = Num(560)
                  /\ Len(OpenLots(q)) = 1
                  /\ OpenLots(q)[1].amount = Num(1)
                  /\ OpenLots(q)[1].costBasis = Num(70)
                  /\ LotTx(OpenLots(q)[1]) = 2

C12_Witness ==
    \E r \in Requests :
        /\ req[r].pc = "returned"
        /\ req[r].transactions = WorkedScenario
        /\ req[r].lotsAtEntry = <<>>

\* the events of a list are in timestamp order within every asset
OrderedPerAsset(transactions) ==
    \A j \in 1..Len(transactions) : \A k \in 1..Len(transactions) :
        (j < k /\ transactions[j].asset = transactions[k].asset)
           => transactions[j].timestamp <= transactions[k].timestamp

StreamAssets(transactions) == {transactions[j].asset : j \in 1..Len(transactions)}

\* the sum, over the assets of a set, of one total of the run on that asset's
\* events and that asset's prior lots
RECURSIVE SumPerAsset(_, _, _, _)
SumPerAsset(assets, transactions, lots, field) ==
    IF assets = {} THEN Zero
    ELSE LET a == CHOOSE x \in assets : TRUE
             part == GainsLosses(SelectSeq(transactions, LAMBDA t : t.asset = a),
                                 SelectSeq(lots, LAMBDA l : l.transaction.asset = a))
         IN  NumAdd(part[field], SumPerAsset(assets \ {a}, transactions, lots, field))

\* C15: partitioning by asset is safe.  For a stream over two or more assets,
\* the four buckets, the cost basis and the proceeds of one run over the whole
\* stream are the sums of those of the runs on each asset's events with that
\* asset's prior lots.
C15_PartitionByAsset ==
    \A r \in Requests :
        LET q == req[r]
            assets == StreamAssets(q.transactions)
                         \cup {q.lotsAtEntry[i].transaction.asset :
                                  i \in 1..Len(q.lotsAtEntry)}
        IN  (q.pc = "returned" /\ Cardinality(StreamAssets(q.transactions)) >= 2)
               => \A field \in {"shortTermGains", "longTermGains", "shortTermLosses",
                                 "longTermLosses", "costBasis", "proceeds"} :
                     q.result[field]
                        = SumPerAsset(assets, q.transactions, q.lotsAtEntry, field)

\* an event of non-positive quantity or negative value
Malformed(transaction) ==
    \/ ~NumGt(transaction.amount, Zero)
    \/ NumGt(Zero, transaction.totalUsd)

\* C13: malformed input is rejected.  A run over a period with an event of
\* non-positive quantity or negative value ends in an error and produces no
\* summary, so a run that returns a summary had no such event.
C13_MalformedRejected ==
    \A r \in Requests :
        RunComplete(req[r]) =>
            \A j \in 1..Len(req[r].transactions) : ~Malformed(req[r].transactions[j])

Buckets == {"shortTermGains", "longTermGains", "shortTermLosses", "longTermLosses"}

\* the bucket of a portion's term and of the sign of its gainLoss
BucketOf(p) ==
    IF NumGt(p.gainLoss, Zero)
    THEN (IF p.term = "long" THEN "longTermGains" ELSE "shortTermGains")
    ELSE (IF p.term = "long" THEN "longTermLosses" ELSE "shortTermLosses")

\* the sum of |gainLoss| over the portions of one bucket
BucketSum(q, b) ==
    LET own == SelectSeq(Portions(q), LAMBDA p : BucketOf(p) = b)
    IN  SumNum([i \in 1..Len(own) |-> NumAbs(own[i].gainLoss)])

\* C16: each matched portion updates one bucket only.  At every point of a run
\* each of the four buckets is the sum of |gainLoss| over the portions of its
\* term and sign, so a portion adds |gainLoss| to its own bucket and nothing
\* to the other three.
C16_OneBucketPerPortion ==
    \A r \in Requests : \A b \in Buckets : req[r].result[b] = BucketSum(req[r], b)

\* a finished run with a short-term loss, a long-term gain and a third bucket
C16_Witness ==
    \E r \in Requests :
        /\ RunComplete(req[r])
        /\ \E i \in 1..Len(Portions(req[r])) :
              BucketOf(Portions(req[r])[i]) = "shortTermLosses"
        /\ \E i \in 1..Len(Portions(req[r])) :
              BucketOf(Portions(req[r])[i]) = "longTermGains"
        /\ NumGt(req[r].result.shortTermLosses, Zero)
        /\ NumGt(req[r].result.longTermGains, Zero)

\* a number that is not negative (NaN is not a number)
NonNegative(x) == ~IsNaN(x) /\ ~NumGt(Zero, x)

\* C17: after any sequence of events the four buckets are non-negative,
\* totalGains = shortTermGains + longTermGains and
\* totalLosses = shortTermLosses + longTermLosses.
C17_BucketsNonNegative ==
    \A r \in Requests :
        LET c == req[r].result
        IN  /\ \A b \in Buckets : NonNegative(c[b])
            /\ c.totalGains = NumAdd(c.shortTermGains, c.longTermGains)
            /\ c.totalLosses = NumAdd(c.shortTermLosses, c.longTermLosses)

\* the unit cost of a lot when it was created: the acquisition's total value
\* over its quantity
OriginalUnitCost(lot) == NumDiv(lot.transaction.totalUsd, lot.transaction.amount)

LotsWithinBounds(q) ==
    \A ref \in 1..Len(q.heap) :
        /\ ~IsNaN(q.heap[ref].amount)
        /\ ~NumGt(Zero, q.heap[ref].amount)
        /\ ~NumGt(q.heap[ref].amount, q.heap[ref].transaction.amount)

\* a step keeps every lot, increases the amount of none, and reduces an amount
\* only inside the while loop of a SELL
LotsOnlyReduced(q, qNext) ==
    \A ref \in 1..Len(q.heap) :
        /\ ref <= Len(qNext.heap)
        /\ ~NumGt(qNext.heap[ref].amount, q.heap[ref].amount)
        /\ qNext.heap[ref].amount # q.heap[ref].amount
              => (q.pc = "match" /\ q.transactions[q.idx].type = "SELL")

\* C19: for events with positive quantities, every lot has
\* 0 <= remaining <= original in every reachable state, its remaining quantity
\* never increases, and it is reduced only while a disposal is being matched.
C19_RemainingBounded ==
    /\ [](\A r \in Requests : LotsWithinBounds(req[r]))
    /\ [][\A r \in Requests : LotsOnlyReduced(req[r], req'[r])]_vars

\* a lot with 0 < remaining < original
C19_Witness ==
    \E r \in Requests : \E ref \in 1..Len(req[r].heap) :
        /\ NumGt(req[r].heap[ref].amount, Zero)
        /\ NumGt(req[r].heap[ref].transaction.amount, req[r].heap[ref].amount)

\* the allocated proceeds of the j-th event that the detail list accounts for
ProceedsFor(q, j) ==
    SumNum([i \in 1..Len(SelectSeq(Portions(q),
                                   LAMBDA p : p.id = q.transactions[j].id)) |->
              SelectSeq(Portions(q),
                        LAMBDA p : p.id = q.transactions[j].id)[i].proceeds])

\* the step has matched a portion, and the portion follows the formulas
PortionAllocated(q, qNext) ==
    Len(Portions(qNext)) = Len(Portions(q)) + 1
       => LET p == Portions(qNext)[Len(Portions(qNext))]
              disposal == q.transactions[q.idx]
              unmatched == NumSub(disposal.amount, MatchedFor(q, q.idx))
              head == q.heap[q.availableLots[1]]
          IN  /\ p.id = disposal.id
              /\ p.amount = NumMin(unmatched, head.amount)
              /\ p.proceeds = NumMul(NumDiv(disposal.totalUsd, disposal.amount), p.amount)
              /\ p.gainLoss = NumSub(p.proceeds, p.costBasis)

InRun(q) == q.pc \in {"loop", "match", "returned"}

\* C21: in the tax-calculate handler the list of available lots is in
\* ascending acquiredAt order in every state of a run: the seeded prior lots
\* come first, in ascending acquiredAt, and a lot appended during the period is
\* acquired no earlier than any lot already in the list.
C21_LotsOrdered ==
    \A r \in Requests :
        LET q == req[r]
        IN  InRun(q) =>
               \A i \in 1..Len(q.availableLots) : \A j \in 1..Len(q.availableLots) :
                   i < j =>
                      /\ q.heap[q.availableLots[i]].acquiredAt
                            <= q.heap[q.availableLots[j]].acquiredAt
                      /\ q.availableLots[i] < q.availableLots[j]
                      /\ q.availableLots[j] <= Len(q.previousTaxLots)
                            => q.availableLots[i] <= Len(q.previousTaxLots)

\* a run whose list holds two seeded lots of different acquiredAt and a lot of
\* the period
C21_Witness ==
    \E r \in Requests :
        LET q == req[r]
        IN  /\ InRun(q)
            /\ Len(q.availableLots) >= 3
            /\ Len(q.previousTaxLots) >= 2
            /\ q.heap[q.availableLots[1]].acquiredAt < q.heap[q.availableLots[2]].acquiredAt
            /\ q.availableLots[3] > Len(q.previousTaxLots)

\* the step processes a BUY, and it appends one lot and touches nothing else
BuyAppendsOneLot(q, qNext) ==
    (/\ q.pc = "loop"
     /\ q.idx <= Len(q.transactions)
     /\ q.transactions[q.idx].type = "BUY"
     /\ qNext.idx = q.idx + 1)
       => LET event == q.transactions[q.idx]
              n == Len(q.availableLots)
              lot == qNext.heap[qNext.availableLots[n + 1]]
          IN  /\ Len(qNext.availableLots) = n + 1
              /\ \A i \in 1..n : qNext.availableLots[i] = q.availableLots[i]
              /\ qNext.availableLots[n + 1] = Len(q.heap) + 1
              /\ Len(qNext.heap) = Len(q.heap) + 1
              /\ \A ref \in 1..Len(q.heap) : qNext.heap[ref] = q.heap[ref]
              /\ lot.amount = event.amount
              /\ lot.costBasis = event.totalUsd
              /\ lot.acquiredAt = event.timestamp
              /\ lot.isClosed = FALSE
              /\ LotTx(lot) = event.id
              /\ qNext.result = q.result

\* C22: processing a BUY appends exactly one new open lot at the tail of the
\* lot list, with the quantity and cost of the event, leaves every existing lot
\* and their order unchanged, adds no matched portion and changes no total.
C22_BuyAppendsOneLot ==
    [][\A r \in Requests : BuyAppendsOneLot(req[r], req'[r])]_vars

\* a BUY has just been processed while another lot was open and the totals
\* were no longer all 0
C22_Witness ==
    \E r \in Requests :
        LET q == req[r]
        IN  /\ q.pc = "loop"
            /\ q.idx > 1
            /\ q.transactions[q.idx - 1].type = "BUY"
            /\ Len(q.availableLots) >= 2
            /\ LotTx(q.heap[q.availableLots[Len(q.availableLots)]])
                  = q.transactions[q.idx - 1].id
            /\ q.result # EmptyResult

\* the place in the event list of the event a portion belongs to
EventIndex(q, p) ==
    CHOOSE j \in 1..Len(q.transactions) : q.transactions[j].id = p.id

\* C23: matched portions are in the detail list in disposal-processing order.
\* Of two portions the earlier one belongs to the same event as the later one
\* or to an earlier event of the list; within one disposal the portions follow
\* the order of the lot list; and in the tax-calculate handler the disposal
\* timestamps of the list are non-decreasing.
C23_PortionOrder ==
    \A r \in Requests :
        LET q == req[r]
        IN  \A i \in 1..Len(q.matchedLots) :
               /\ \E j \in 1..Len(q.transactions) :
                     q.transactions[j].id = Portions(q)[i].id
               /\ q.transactions[EventIndex(q, Portions(q)[i])].type = "SELL"
               /\ \A k \in 1..Len(q.matchedLots) :
                     i < k =>
                        /\ EventIndex(q, Portions(q)[i]) <= EventIndex(q, Portions(q)[k])
                        /\ Portions(q)[i].date <= Portions(q)[k].date
                        /\ Portions(q)[i].id = Portions(q)[k].id
                              => /\ q.matchedLots[i] < q.matchedLots[k]
                                 /\ PortionLot(q, i).acquiredAt
                                       <= PortionLot(q, k).acquiredAt

\* a run of the handler with portions of two disposals of different
\* timestamps that were stored in the reverse order
C23_Witness ==
    \E r \in Requests :
        LET q == req[r]
        IN  \E i \in 1..Len(q.matchedLots) : \E k \in 1..Len(q.matchedLots) :
               /\ i < k
               /\ Portions(q)[i].date < Portions(q)[k].date
               /\ Portions(q)[i].id > Portions(q)[k].id

\* what a request for a year returns when it runs alone on the stored data
AloneResult(taxYear) ==
    GainsLosses(FindTransactions(YearStart(taxYear), YearEnd(taxYear)),
                FindPreviousTaxLots(YearStart(taxYear)))

\* C24: two concurrent tax-calculate requests of one user never share lot
\* state.  Under every interleaving each request starts from the lots as they
\* are stored, whatever the other request has done to its own, and returns the
\* summary it would return if it ran alone on the stored data.
C24_ConcurrentRequestsPrivate ==
    \A r \in Pair :
        /\ InRun(req[r]) =>
              req[r].lotsAtEntry = FindPreviousTaxLots(YearStart(req[r].taxYear))
        /\ RunComplete(req[r]) => req[r].result = AloneResult(req[r].taxYear)

\* both requests are inside the run of the same year, and one of them has
\* partially used a carried-over lot that the other still has whole
C24_Witness ==
    /\ InRun(req[1])
    /\ InRun(req[2])
    /\ req[1].taxYear = req[2].taxYear
    /\ Len(req[1].previousTaxLots) >= 1
    /\ req[1].heap[1].amount # req[2].heap[1].amount
    /\ req[2].pc = "loop"
    /\ req[2].idx = 1

\* what bounds the iterations still to come of the matching loop
LoopMeasure(q) ==
    Len(q.availableLots) + (IF NumGt(q.remainingAmount, Zero) THEN 1 ELSE 0)

\* a step of the matching loop of a disposal
LoopIteration(q, qNext) ==
    /\ q.pc = "match"
    /\ qNext.pc = "match"
    /\ qNext # q

\* C25: the matching loop of calculateGainsLosses terminates for every disposal
\* and every lot list, zero and negative amounts included: each iteration
\* either removes the head lot or brings the unmatched quantity to zero, so the
\* number of open lots plus one for a positive unmatched quantity falls with
\* every iteration, and every disposal that has begun is left.
C25_MatchingTerminates ==
    /\ [][\A r \in Requests :
            LoopIteration(req[r], req'[r]) =>
               /\ \/ req'[r].availableLots = Tail(req[r].availableLots)
                  \/ /\ req'[r].remainingAmount = Zero
                     /\ req'[r].availableLots = req[r].availableLots
               /\ LoopMeasure(req'[r]) < LoopMeasure(req[r])]_vars
    /\ \A r \in Requests : (req[r].pc = "match") ~> (req[r].pc = "loop")

\* a disposal has ended after it matched a lot of negative amount and a lot of
\* zero amount, each removed from the list
C25_Witness ==
    \E r \in Requests :
        LET q == req[r] IN
        /\ AfterSell(q)
        /\ \E i, k \in 1..Len(q.matchedLots) :
              /\ NumGt(Zero, q.heap[q.matchedLots[i]].amount)
              /\ q.heap[q.matchedLots[k]].amount = Zero
        /\ q.availableLots = <<>>
        /\ NumGt(q.remainingAmount, q.transactions[q.idx - 1].amount)

\* the total quantity of a list of lots
TotalAmount(lots) == SumNum([i \in 1..Len(lots) |-> lots[i].amount])

\* the disposal just processed and the lots it found are of positive quantity
PositiveQuantities(q) ==
    /\ NumGt(q.transactions[q.idx - 1].amount, Zero)
    /\ \A i \in 1..Len(q.sellStart) : NumGt(q.sellStart[i].amount, Zero)

C26_WitnessShort ==
    \E r \in Requests :
        LET q == req[r] IN
        /\ AfterSell(q)
        /\ PositiveQuantities(q)
        /\ Len(q.sellStart) >= 1
        /\ q.availableLots = <<>>
        /\ NumGt(q.transactions[q.idx - 1].amount, MatchedFor(q, q.idx - 1))

\* C27: a tax calculation never writes lot state back to the store.  No step
\* of a tax-calculate request changes a stored tax lot (its amount, costBasis
\* and isClosed flag stay as they were) or a stored transaction; of the store,
\* only the tax report and its calculation row change.
C27_LotsNotWrittenBack ==
    [][(\E r \in Requests : req'[r] # req[r]) =>
          /\ dbTaxLots' = dbTaxLots
          /\ dbTransactions' = dbTransactions]_vars

\* a request is about to respond after a run that has used up one carried-over
\* lot and a part of another, and their rows are as they were stored
C27_Witness ==
    \E r \in Requests :
        LET q == req[r] IN
        /\ q.pc = "respond"
        /\ dbTaxReports # {}
        /\ \E i, k \in 1..Len(dbTaxLots) : \E a, b \in 1..Len(q.previousTaxLots) :
              /\ q.heap[a].id = dbTaxLots[i].id
              /\ q.heap[b].id = dbTaxLots[k].id
              /\ \A j \in 1..Len(q.availableLots) : q.availableLots[j] # a
              /\ ~dbTaxLots[i].isClosed
              /\ \E j \in 1..Len(q.availableLots) : q.availableLots[j] = b
              /\ q.heap[b].amount # dbTaxLots[k].amount
              /\ dbTaxLots[k].amount = dbTransactions[dbTaxLots[k].transactionId].amount

\* the acquisitions whose stored lots a run was seeded with
SeededAcquisitions(q) ==
    {LotTx(q.heap[q.previousTaxLots[i]]) : i \in 1..Len(q.previousTaxLots)}

\* the acquisitions a run is handed as events of its period
PeriodAcquisitions(q) ==
    {q.transactions[j].id : j \in {k \in 1..Len(q.transactions) :
                                      q.transactions[k].type = "BUY"}}

\* C28: within one tax-calculate run no acquisition is represented by two lots.
\* A BUY whose stored lot is seeded as a prior lot is not among the events of
\* the period, a BUY among the events has no lot among the seeded ones, and so
\* no two lots the run works on stand for the same acquisition.
C28_NoAcquisitionTwice ==
    \A r \in Requests :
        LET q == req[r] IN
        InRun(q) =>
            /\ SeededAcquisitions(q) \cap PeriodAcquisitions(q) = {}
            /\ \A a, b \in 1..Len(q.heap) :
                  LotTx(q.heap[a]) = LotTx(q.heap[b]) => a = b

\* a finished run that was seeded with a lot of the year before and has made
\* a lot for a BUY stamped at the first instant of its own year
C28_Witness ==
    \E r \in Requests :
        LET q == req[r] IN
        /\ q.pc = "returned"
        /\ SeededAcquisitions(q) # {}
        /\ \E j \in 1..Len(q.transactions) :
              /\ q.transactions[j].type = "BUY"
              /\ q.transactions[j].timestamp = YearStart(q.taxYear)
        /\ Len(q.heap) > Len(q.previousTaxLots)

\* the tax year whose calendar year holds a timestamp
CalendarYear(timestamp) ==
    CHOOSE y \in TaxYears : YearStart(y) <= timestamp /\ timestamp < YearStart(y + 1)

\* the stored transaction is among the events the request has read
ReadAsEvent(q, t) == \E j \in 1..Len(q.transactions) : q.transactions[j].id = t.id

\* C29: every transaction timestamp belongs to the event window of exactly one
\* tax year: a request for a year reads a stored transaction as an event if
\* and only if the timestamp lies in that calendar year, the last second of
\* 31 December included.
C29_OneWindowPerTimestamp ==
    \A r \in Requests :
        req[r].pc # "idle" =>
            \A i \in 1..Len(dbTransactions) :
                ReadAsEvent(req[r], dbTransactions[i])
                    <=> CalendarYear(dbTransactions[i].timestamp) = req[r].taxYear

\* the event at idx is neither an acquisition nor a disposal
AtOtherEvent(q) ==
    /\ q.pc = "loop"
    /\ q.idx <= Len(q.transactions)
    /\ q.transactions[q.idx].type \notin {"BUY", "SELL"}

\* C30: events whose type is neither BUY nor SELL leave the lot list, the lots,
\* the matched-portion list and every summary total unchanged, and only BUY
\* events create a lot: every lot a run works on and every stored lot stands
\* for a BUY transaction, and the stored lots are those of the stored BUYs.
C30_OnlyBuyCreatesLots ==
    /\ [](\A r \in Requests : \A a \in 1..Len(req[r].heap) :
             req[r].heap[a].transaction.type = "BUY")
    /\ [](dbTaxLots = StoredLots(dbTransactions))
    /\ [][\A r \in Requests :
            (AtOtherEvent(req[r]) /\ req'[r] # req[r]) =>
               /\ req'[r].idx = req[r].idx + 1
               /\ req'[r].availableLots = req[r].availableLots
               /\ req'[r].heap = req[r].heap
               /\ req'[r].result = req[r].result]_vars

\* a stored AIRDROP has no lot, and a run has just passed over it with a lot
\* open and a portion matched
C30_Witness ==
    \E r \in Requests :
        LET q == req[r] IN
        /\ q.pc = "loop"
        /\ q.idx > 1
        /\ q.transactions[q.idx - 1].type = "AIRDROP"
        /\ Len(q.availableLots) >= 1
        /\ Len(Portions(q)) >= 1
        /\ \A i \in 1..Len(dbTaxLots) :
              dbTaxLots[i].transactionId # q.transactions[q.idx - 1].id

=============================================================================
